---- MODULE Spec2Model ----
(***************************************************************************)
(* Monte Carlo tree search of src/strategies/mcts.rs: the tree of nodes    *)
(* with atomic visits/score counters and a lazily set expansion, the       *)
(* random rollout, the recursive simulate pass, and choose_move.           *)
(*                                                                         *)
(* The Game trait is instantiated by a family of take-away games: a state  *)
(* is a pile (an integer), a move takes some stones, the game ends when    *)
(* the pile is exactly 0.  Apply and undo are unchecked subtraction and    *)
(* addition, as in an in-place implementation of the trait.                *)
(***************************************************************************)
EXTENDS Integers, Sequences, FiniteSets, TLC

\* ------------------------------------------------------------------ bounds
MaxPile == 3
MaxDepth == 2
MaxRbe == 1
max_rollouts == 2

\* The workers that run passes on the shared tree.  choose_move runs its
\* passes on one thread: those are the behaviours in which a pass starts
\* only when no other is in progress.  The atomics of Node allow several
\* workers, whose passes interleave at every atomic access.
Threads == {"t1", "t2"}

\* ------------------------------------------------------- the Game contract
None == "None"
Winners == {"PlayerJustMoved", "PlayerToMove", "Draw"}

TakeLists == {<<1>>, <<1, 2>>, <<2>>}
Games == [takes : TakeLists, verdict : Winners]

\* G::get_winner: the game is over exactly when the pile is empty.
get_winner(g, state) == IF state = 0 THEN g.verdict ELSE None

\* G::generate_moves: the takes that the pile can afford, in order.
generate_moves(g, state) == SelectSeq(g.takes, LAMBDA m : m <= state)

\* Move::apply and Move::undo, in place on the state.
apply(m, state) == state - m
undo(m, state) == state + m

\* the set of the elements of a sequence
Range(f) == {f[x] : x \in DOMAIN f}

\* ------------------------------------------------------ f32 scores (UCT)
\* An f32 is modelled as a fixed-point integer (Scale units per 1.0),
\* with +-Inf as +-Infinity and NaN as a flag: NaN compares false with
\* everything, as in IEEE 754.  Within the tabulated range the order of
\* the fixed-point scores is the order of the f32 scores.
Scale == 1000000
Infinity == 1000000000
NaN == [nan |-> TRUE, v |-> 0]
Fin(x) == [nan |-> FALSE, v |-> x]
F32Greater(a, b) == ~a.nan /\ ~b.nan /\ a.v > b.v

\* (visits as f32).log2(), kept as its argument: 0 stands for -inf, the
\* only non-finite logarithm
log2(visits) == visits

\* SqrtTable[P][v] is sqrt(2 * log2(P) / v) in units of 1/Scale
SqrtTable ==
  <<<<0, 0, 0, 0, 0, 0, 0, 0>>,
    <<1414214, 1000000, 816497, 707107, 632456, 577350, 534522, 500000>>,
    <<1780428, 1258953, 1027931, 890214, 796232, 726857, 672939, 629476>>,
    <<2000000, 1414214, 1154701, 1000000, 894427, 816497, 755929, 707107>>,
    <<2154961, 1523787, 1244167, 1077480, 963728, 879759, 814499, 761894>>,
    <<2273747, 1607782, 1312748, 1136873, 1016851, 928253, 859396, 803891>>,
    <<2369538, 1675516, 1368053, 1184769, 1059690, 967360, 895601, 837758>>,
    <<2449490, 1732051, 1414214, 1224745, 1095445, 1000000, 925820, 866025>>>>

\* uct_score with the win ratio of the other player
uct_score_Negated(exploration_score, log_parent_visits, visits, score) ==
  IF visits = 0
  THEN IF exploration_score > 0 THEN Fin(Infinity) ELSE Fin(0)
  ELSE LET win_ratio == ((visits - score) * Scale) \div (2 * visits)
       IN IF log_parent_visits = 0
          THEN NaN
          ELSE Fin(win_ratio
                   + exploration_score * SqrtTable[log_parent_visits][visits])

\* uct_score where an unvisited child scores 0 whatever the weight
uct_score_NoInf(exploration_score, log_parent_visits, visits, score) ==
  IF visits = 0
  THEN Fin(0)
  ELSE LET win_ratio == ((score + visits) * Scale) \div (2 * visits)
       IN IF log_parent_visits = 0
          THEN NaN
          ELSE Fin(win_ratio
                   + exploration_score * SqrtTable[log_parent_visits][visits])

\* Node::uct_score on the loaded visits and score of the child
uct_score(exploration_score, log_parent_visits, visits, score) ==
  IF visits = 0
  THEN IF exploration_score > 0 THEN Fin(Infinity) ELSE Fin(0)
  ELSE LET win_ratio == ((score + visits) * Scale) \div (2 * visits)
       IN IF log_parent_visits = 0
          THEN NaN   \* sqrt(-inf) is NaN, and so is 0.0 * NaN
          ELSE Fin(win_ratio
                   + exploration_score * SqrtTable[log_parent_visits][visits])

\* one iteration of the loop of Node::best_child: bc is the loop's locals,
\* visits and score what uct_score loaded from children[bc.i]; bc.nan,
\* bc.zero and bc.best_visits record the scan: a score was NaN, a child was
\* loaded with visits 0, the visits loaded from the best child
BestChildIter(bc, n, exploration_score, visits, score) ==
  LET sc == uct_score(exploration_score, bc.log_visits, visits, score)
      better == F32Greater(sc, bc.best_score)
  IN [bc EXCEPT !.best_score = IF better THEN sc ELSE @,
                !.best_child = IF better THEN bc.i ELSE @,
                !.best_visits = IF better THEN visits ELSE @,
                !.nan = @ \/ sc.nan,
                !.zero = @ \/ visits = 0,
                !.i = (bc.i % n) + 1,
                !.k = @ + 1]

\* the locals of best_child before the loop; children are indexed 1..n,
\* best_child = 0 is Rust's None
BestChildLocals(log_visits, start) ==
  [log_visits |-> log_visits, i |-> start, k |-> 0,
   best_score |-> Fin(-Infinity), best_child |-> 0, best_visits |-> 0,
   nan |-> FALSE, zero |-> FALSE]

\* WinnerValue with the two wins exchanged
WinnerValue_Swapped(winner) ==
  CASE winner = "PlayerJustMoved" -> -1
    [] winner = "PlayerToMove" -> 1
    [] winner = "Draw" -> 0

\* the value a verdict contributes (lines 145-149 and 190-194)
WinnerValue(winner) ==
  CASE winner = "PlayerJustMoved" -> 1
    [] winner = "PlayerToMove" -> -1
    [] winner = "Draw" -> 0

\* ------------------------------------------------------------- rollout
\* The set of values MonteCarloTreeSearch::rollout can return from the loop
\* state (state, depth, sign), over all random choices; s is the argument
\* of rollout, whose legal moves line 157 enumerates at every ply.
RECURSIVE rollout_loop(_, _, _, _, _)
rollout_loop(g, s, state, depth, sign) ==
  IF get_winner(g, state) # None
  THEN {WinnerValue(get_winner(g, state)) * sign}
  ELSE IF depth = 0
       THEN {0}
       ELSE UNION {rollout_loop(g, s, apply(m, state), depth - 1, -sign) :
                     m \in Range(generate_moves(g, s))}

\* whether some run of the loop ends in choose(..).unwrap() on no moves
RECURSIVE rollout_panics(_, _, _, _)
rollout_panics(g, s, state, depth) ==
  /\ get_winner(g, state) = None
  /\ depth # 0
  /\ \/ generate_moves(g, s) = <<>>
     \/ \E m \in Range(generate_moves(g, s)) :
          rollout_panics(g, s, apply(m, state), depth - 1)

rollout(g, opts, s) == rollout_loop(g, s, s, opts.max_rollout_depth, 1)

\* ---------------------------------------------------------- expansion
\* new_expansion with the test of the winner turned round
new_expansion_Inverted(g, state) ==
  LET winner == get_winner(g, state)
  IN [winner |-> winner,
      children |-> IF winner = None THEN <<>> ELSE generate_moves(g, state)]

\* new_expansion: children are named by their moves; the child Node of
\* move m under the node at path p is the node at path Append(p, m).
new_expansion(g, state) ==
  LET winner == get_winner(g, state)
  IN [winner |-> winner,
      children |-> IF winner # None THEN <<>> ELSE generate_moves(g, state)]

\* AtomicBox: empty, or holding one value.  Option<M> likewise.
Empty == <<>>
Some(x) == <<x>>

\* AtomicBox::get
get(box) == box

\* AtomicBox::try_set: the box afterwards (the caller gets its content)
try_set(box, value) == IF box = Empty THEN Some(value) ELSE box

\* Node::new
NewNode == [visits |-> 0, score |-> 0, expansion |-> Empty,
            direct |-> 0, late |-> 0]

\* the nodes an installed expansion adds under the node at path
ChildNodes(path, e) ==
  [p \in {Append(path, m) : m \in Range(e.children)} |-> NewNode]

\* ------------------------------------------------------------- state
VARIABLES
  game,      \* the Game implementation G
  options,   \* MCTSOptions
  s,         \* the argument of choose_move
  nodes,     \* the tree: path of moves from the root |-> Node
  th,        \* per worker: position in simulate and its locals
  issued,    \* passes started (the loop counter of choose_move)
  completed, \* passes whose simulate call from the root has returned
  outcome,   \* what choose_move did: running, returned a value, panicked
  through,   \* history: path |-> number of simulate calls made on that node
  ro         \* a rollout run ply by ply (specification SpecRollout)

vars == <<game, options, s, nodes, th, issued, completed, outcome, through, ro>>

Root == <<>>
Parent(path) == SubSeq(path, 1, Len(path) - 1)
Last(path) == path[Len(path)]

Idle == [pc |-> "idle", path |-> Root, force_rollout |-> FALSE, result |-> 0,
         bc |-> BestChildLocals(0, 1), visits |-> 0,
         installed |-> FALSE, sawTerminal |-> FALSE, lostRace |-> FALSE,
         leaf |-> FALSE, setAt |-> Root, trail |-> <<>>,
         alone |-> TRUE, late |-> FALSE]

RoOff == [pc |-> "off", s |-> 0, state |-> 0, depth |-> 0, sign |-> 1,
          result |-> 0, plies |-> 0, legal |-> TRUE]

\* the options a search is run with: no rollout moves at all or the deepest
\* rollouts, and every threshold up to MaxRbe
OptionsSet == [max_rollout_depth : {0, MaxDepth},
               rollouts_before_expanding : 0..MaxRbe]

\* choose_move lines 213-215: the root is built and expanded, the state
\* cloned (one private clone per worker).
Init ==
  /\ game \in Games
  /\ options \in OptionsSet
  /\ s \in 0..MaxPile
  /\ nodes = LET e == new_expansion(game, s)
             IN (Root :> [NewNode EXCEPT !.expansion = try_set(@, e)])
                @@ ChildNodes(Root, e)
  /\ th = [t \in Threads |-> Idle @@ [state |-> s]]
  /\ issued = 0
  /\ completed = 0
  /\ outcome = [status |-> "running", move |-> Empty, assert_eq |-> TRUE]
  /\ through = [p \in DOMAIN nodes |-> 0]
  /\ ro = RoOff

\* -------------------------------------------------------------- simulate
Expansion(path) == nodes[path].expansion[1]
ChildPath(path, i) == Append(path, Expansion(path).children[i])

\* a panic unwinds the worker; choose_move never returns normally
Panic(t) ==
  /\ th' = [th EXCEPT ![t].pc = "panic"]
  /\ outcome' = [outcome EXCEPT !.status = "panicked"]

\* no pass is in progress and none has panicked
Quiescent == \A t \in Threads : th[t].pc \in {"idle", "done"}

\* choose_move line 216-217: the next pass starts from the root.  alone
\* records, while a pass runs, that no other pass has run during it.
StartPass(t) ==
  /\ th[t].pc \in {"idle", "done"}
  /\ outcome.status = "running"
  /\ issued < max_rollouts
  /\ issued' = issued + 1
  /\ th' = [u \in Threads |->
              IF u = t
              THEN [Idle @@ [state |-> th[t].state]
                      EXCEPT !.pc = "simulate", !.alone = Quiescent]
              ELSE [th[u] EXCEPT !.alone = @ /\ th[u].pc \in {"idle", "done"}]]
  /\ through' = [through EXCEPT ![Root] = @ + 1]
  /\ UNCHANGED <<game, options, s, nodes, completed, outcome, ro>>

\* SimulateRollout without the fetch_add on visits
SimulateRollout_NoVisit(t) ==
  /\ \/ th[t].pc = "simulate" /\ th[t].force_rollout
     \/ th[t].pc = "leaf_rollout"
  /\ \E r \in rollout(game, options, th[t].state) :
       /\ nodes' = [nodes EXCEPT
                      ![th[t].path].direct = @ + 1,
                      ![th[t].path].late =
                         IF nodes[th[t].path].expansion # Empty
                         THEN @ + 1 ELSE @]
       /\ th' = [th EXCEPT ![t].pc = "update_score", ![t].result = r,
                           ![t].late = nodes[th[t].path].expansion # Empty]
  /\ UNCHANGED <<game, options, s, issued, completed, outcome, through, ro>>

\* lines 170-171 and 180: the rollout, then the first half of update_stats
\* (visits.fetch_add).  direct counts the rollouts recorded at the node
\* itself, late those of them recorded when the node was already expanded
\* (the worker's late marks the pass that did so)
SimulateRollout(t) ==
  /\ \/ th[t].pc = "simulate" /\ th[t].force_rollout
     \/ th[t].pc = "leaf_rollout"
  /\ \E r \in rollout(game, options, th[t].state) :
       /\ nodes' = [nodes EXCEPT
                      ![th[t].path].visits = @ + 1,
                      ![th[t].path].direct = @ + 1,
                      ![th[t].path].late =
                         IF nodes[th[t].path].expansion # Empty
                         THEN @ + 1 ELSE @]
       /\ th' = [th EXCEPT ![t].pc = "update_score", ![t].result = r,
                           ![t].late = nodes[th[t].path].expansion # Empty]
  /\ UNCHANGED <<game, options, s, issued, completed, outcome, through, ro>>

\* line 158: unwrap on an empty choice
SimulateRolloutPanic(t) ==
  /\ \/ th[t].pc = "simulate" /\ th[t].force_rollout
     \/ th[t].pc = "leaf_rollout"
  /\ rollout_panics(game, th[t].state, th[t].state, options.max_rollout_depth)
  /\ Panic(t)
  /\ UNCHANGED <<game, options, s, nodes, issued, completed, through, ro>>

\* line 174: node.expansion.get()
SimulateGet(t) ==
  /\ th[t].pc = "simulate" /\ ~th[t].force_rollout
  /\ IF get(nodes[th[t].path].expansion) # Empty
     THEN th' = [th EXCEPT ![t].pc = "expanded",
                           ![t].sawTerminal =
                              Expansion(th[t].path).winner # None]
     ELSE th' = [th EXCEPT ![t].pc = "leaf"]
  /\ UNCHANGED <<game, options, s, nodes, issued, completed, outcome,
                 through, ro>>

\* SimulateLeaf with the comparison turned round
SimulateLeaf_Inverted(t) ==
  /\ th[t].pc = "leaf"
  /\ IF nodes[th[t].path].visits >= options.rollouts_before_expanding
     THEN th' = [th EXCEPT ![t].pc = "leaf_rollout", ![t].leaf = TRUE]
     ELSE th' = [th EXCEPT ![t].pc = "try_set", ![t].force_rollout = TRUE]
  /\ UNCHANGED <<game, options, s, nodes, issued, completed, outcome,
                 through, ro>>

\* SimulateLeaf comparing with <= instead of <
SimulateLeaf_Le(t) ==
  /\ th[t].pc = "leaf"
  /\ IF nodes[th[t].path].visits <= options.rollouts_before_expanding
     THEN th' = [th EXCEPT ![t].pc = "leaf_rollout", ![t].leaf = TRUE]
     ELSE th' = [th EXCEPT ![t].pc = "try_set", ![t].force_rollout = TRUE]
  /\ UNCHANGED <<game, options, s, nodes, issued, completed, outcome,
                 through, ro>>

\* SimulateLeaf leaving force_rollout as it was
SimulateLeaf_NoForce(t) ==
  /\ th[t].pc = "leaf"
  /\ IF nodes[th[t].path].visits < options.rollouts_before_expanding
     THEN th' = [th EXCEPT ![t].pc = "leaf_rollout", ![t].leaf = TRUE]
     ELSE th' = [th EXCEPT ![t].pc = "try_set"]
  /\ UNCHANGED <<game, options, s, nodes, issued, completed, outcome,
                 through, ro>>

\* line 178: the leaf's visits against rollouts_before_expanding
SimulateLeaf(t) ==
  /\ th[t].pc = "leaf"
  /\ IF nodes[th[t].path].visits < options.rollouts_before_expanding
     THEN th' = [th EXCEPT ![t].pc = "leaf_rollout", ![t].leaf = TRUE]
     ELSE th' = [th EXCEPT ![t].pc = "try_set", ![t].force_rollout = TRUE]
  /\ UNCHANGED <<game, options, s, nodes, issued, completed, outcome,
                 through, ro>>

\* SimulateTrySet storing its own expansion whatever the box holds: the
\* children of the expansion it replaces are dropped with it
SimulateTrySet_Overwrite(t) ==
  /\ th[t].pc = "try_set"
  /\ LET path == th[t].path
         e == new_expansion(game, th[t].state)
     IN /\ nodes' = ChildNodes(path, e)
                     @@ [nodes EXCEPT ![path].expansion = Some(e)]
        /\ through' = through @@ [p \in DOMAIN ChildNodes(path, e) |-> 0]
        /\ th' = [th EXCEPT ![t].pc = "expanded", ![t].installed = TRUE,
                            ![t].setAt = path]
  /\ UNCHANGED <<game, options, s, issued, completed, outcome, ro>>

\* line 184: node.expansion.try_set(new_expansion(state))
SimulateTrySet(t) ==
  /\ th[t].pc = "try_set"
  /\ LET path == th[t].path
         e == new_expansion(game, th[t].state)
         won == nodes[path].expansion = Empty
     IN /\ nodes' = IF won
                    THEN [nodes EXCEPT ![path].expansion = try_set(@, e)]
                         @@ ChildNodes(path, e)
                    ELSE nodes
        /\ through' = IF won
                      THEN through @@ [p \in DOMAIN ChildNodes(path, e) |-> 0]
                      ELSE through
        /\ th' = [th EXCEPT ![t].pc = "expanded",
                            ![t].installed = won, ![t].lostRace = ~won,
                            ![t].setAt = path]
  /\ UNCHANGED <<game, options, s, issued, completed, outcome, ro>>

\* SimulateTerminal recording the verdict in score only
SimulateTerminal_NoVisit(t) ==
  /\ th[t].pc = "expanded"
  /\ Expansion(th[t].path).winner # None
  /\ th' = [th EXCEPT ![t].pc = "update_score",
                      ![t].result = WinnerValue(Expansion(th[t].path).winner)]
  /\ UNCHANGED <<game, options, s, nodes, issued, completed, outcome,
                 through, ro>>

\* lines 189-195: a terminal node records its verdict (visits.fetch_add)
SimulateTerminal(t) ==
  /\ th[t].pc = "expanded"
  /\ Expansion(th[t].path).winner # None
  /\ nodes' = [nodes EXCEPT ![th[t].path].visits = @ + 1]
  /\ th' = [th EXCEPT ![t].pc = "update_score",
                      ![t].result = WinnerValue(Expansion(th[t].path).winner)]
  /\ UNCHANGED <<game, options, s, issued, completed, outcome, through, ro>>

\* line 198, best_child lines 50-57: the parent's visits are loaded once,
\* the scan starts at a random child
BestChildStart(t) ==
  /\ th[t].pc = "expanded"
  /\ Expansion(th[t].path).winner = None
  /\ Len(Expansion(th[t].path).children) > 0
  /\ \E start \in 1..Len(Expansion(th[t].path).children) :
       th' = [th EXCEPT ![t].pc = "uct_visits",
                        ![t].bc = BestChildLocals(
                                    log2(nodes[th[t].path].visits), start)]
  /\ UNCHANGED <<game, options, s, nodes, issued, completed, outcome,
                 through, ro>>

\* line 55: gen_range(0..0) panics
BestChildPanic(t) ==
  /\ th[t].pc = "expanded"
  /\ Expansion(th[t].path).winner = None
  /\ Len(Expansion(th[t].path).children) = 0
  /\ Panic(t)
  /\ UNCHANGED <<game, options, s, nodes, issued, completed, through, ro>>

\* lines 58-67 and 198-201: after an iteration of the scan either the next
\* child is scored, or the loop is over: the best child is unwrapped, its
\* move applied and simulate called on it
AfterIter(t, bc) ==
  LET path == th[t].path
      n == Len(Expansion(path).children)
  IN IF bc.k < n
     THEN /\ th' = [th EXCEPT ![t].pc = "uct_visits", ![t].bc = bc]
          /\ UNCHANGED <<outcome, through>>
     ELSE IF bc.best_child = 0
          THEN /\ th' = [th EXCEPT ![t].pc = "panic", ![t].bc = bc]
               /\ outcome' = [outcome EXCEPT !.status = "panicked"]
               /\ UNCHANGED through
          ELSE LET next == ChildPath(path, bc.best_child)
               IN /\ th' = [th EXCEPT ![t].pc = "simulate", ![t].bc = bc,
                                      ![t].path = next,
                                      ![t].state = apply(Last(next), @)]
                  /\ through' = [through EXCEPT ![next] = @ + 1]
                  /\ UNCHANGED outcome

\* uct_score line 71: the child's visits; an unvisited child is scored
\* without loading its score
UctVisits(t) ==
  /\ th[t].pc = "uct_visits"
  /\ LET child == ChildPath(th[t].path, th[t].bc.i)
         n == Len(Expansion(th[t].path).children)
     IN IF nodes[child].visits = 0
        THEN AfterIter(t, BestChildIter(th[t].bc, n, 1, 0, 0))
        ELSE /\ th' = [th EXCEPT ![t].pc = "uct_score",
                                 ![t].visits = nodes[child].visits]
             /\ UNCHANGED <<outcome, through>>
  /\ UNCHANGED <<game, options, s, nodes, issued, completed, ro>>

\* uct_score line 72: the child's score
UctScore(t) ==
  /\ th[t].pc = "uct_score"
  /\ LET child == ChildPath(th[t].path, th[t].bc.i)
         n == Len(Expansion(th[t].path).children)
     IN AfterIter(t, BestChildIter(th[t].bc, n, 1, th[t].visits,
                                   nodes[child].score))
  /\ UNCHANGED <<game, options, s, nodes, issued, completed, ro>>

\* UpdateScore returning the child's result to the caller as it is
UpdateScore_NoNegate(t) ==
  /\ th[t].pc = "update_score"
  /\ nodes' = [nodes EXCEPT ![th[t].path].score = @ + th[t].result]
  /\ IF th[t].path = Root
     THEN /\ th' = [th EXCEPT ![t].pc = "done",
                              ![t].trail = Append(@, th[t].result),
                              ![t].alone = TRUE, ![t].late = FALSE]
          /\ completed' = completed + 1
     ELSE /\ th' = [th EXCEPT ![t].pc = "update_visits",
                              ![t].trail = Append(@, th[t].result),
                              ![t].state = undo(Last(th[t].path), @),
                              ![t].path = Parent(th[t].path)]
          /\ UNCHANGED completed
  /\ UNCHANGED <<game, options, s, issued, outcome, through, ro>>

\* UpdateScore returning to the caller without undoing the move
UpdateScore_NoUndo(t) ==
  /\ th[t].pc = "update_score"
  /\ nodes' = [nodes EXCEPT ![th[t].path].score = @ + th[t].result]
  /\ IF th[t].path = Root
     THEN /\ th' = [th EXCEPT ![t].pc = "done",
                              ![t].trail = Append(@, th[t].result),
                              ![t].alone = TRUE, ![t].late = FALSE]
          /\ completed' = completed + 1
     ELSE /\ th' = [th EXCEPT ![t].pc = "update_visits",
                              ![t].trail = Append(@, th[t].result),
                              ![t].result = -th[t].result,
                              ![t].path = Parent(th[t].path)]
          /\ UNCHANGED completed
  /\ UNCHANGED <<game, options, s, issued, outcome, through, ro>>

\* update_stats line 83 (score.fetch_add) and the return of simulate: to
\* choose_move from the root, else to line 201-203 of the caller, which
\* negates the result and undoes the move.  trail lists the values the
\* pass has added to scores, from the deepest node up.
UpdateScore(t) ==
  /\ th[t].pc = "update_score"
  /\ nodes' = [nodes EXCEPT ![th[t].path].score = @ + th[t].result]
  /\ IF th[t].path = Root
     THEN /\ th' = [th EXCEPT ![t].pc = "done",
                              ![t].trail = Append(@, th[t].result),
                              ![t].alone = TRUE, ![t].late = FALSE]
          /\ completed' = completed + 1
     ELSE /\ th' = [th EXCEPT ![t].pc = "update_visits",
                              ![t].trail = Append(@, th[t].result),
                              ![t].result = -th[t].result,
                              ![t].state = undo(Last(th[t].path), @),
                              ![t].path = Parent(th[t].path)]
          /\ UNCHANGED completed
  /\ UNCHANGED <<game, options, s, issued, outcome, through, ro>>

\* UpdateVisits without the fetch_add on visits
UpdateVisits_Skip(t) ==
  /\ th[t].pc = "update_visits"
  /\ th' = [th EXCEPT ![t].pc = "update_score"]
  /\ UNCHANGED <<game, options, s, nodes, issued, completed, outcome,
                 through, ro>>

\* line 203, update_stats line 82: visits.fetch_add
UpdateVisits(t) ==
  /\ th[t].pc = "update_visits"
  /\ nodes' = [nodes EXCEPT ![th[t].path].visits = @ + 1]
  /\ th' = [th EXCEPT ![t].pc = "update_score"]
  /\ UNCHANGED <<game, options, s, issued, completed, outcome, through, ro>>

\* ----------------------------------------------------------- choose_move
\* Node::best_child run to the end on a tree no pass is changing
RECURSIVE BestChildLoop(_, _, _, _)
BestChildLoop(path, bc, n, exploration_score) ==
  IF bc.k = n THEN bc
  ELSE LET child == nodes[ChildPath(path, bc.i)]
       IN BestChildLoop(path,
            BestChildIter(bc, n, exploration_score, child.visits, child.score),
            n, exploration_score)

best_child(path, exploration_score, start) ==
  BestChildLoop(path, BestChildLocals(log2(nodes[path].visits), start),
                Len(Expansion(path).children), exploration_score)

\* lines 219-222: after the last pass
ChooseMoveReturn ==
  /\ outcome.status = "running"
  /\ completed = max_rollouts
  /\ Len(Expansion(Root).children) > 0
  /\ \E start \in 1..Len(Expansion(Root).children) :
       LET best == best_child(Root, 0, start).best_child
       IN outcome' = [status |-> "returned",
                      move |-> IF best = 0 THEN Empty
                               ELSE Some(Expansion(Root).children[best]),
                      assert_eq |-> max_rollouts = nodes[Root].visits]
  /\ UNCHANGED <<game, options, s, nodes, th, issued, completed, through, ro>>

\* line 221 into line 55: gen_range(0..0) panics
ChooseMovePanic ==
  /\ outcome.status = "running"
  /\ completed = max_rollouts
  /\ Len(Expansion(Root).children) = 0
  /\ outcome' = [outcome EXCEPT !.status = "panicked",
                                !.assert_eq = max_rollouts = nodes[Root].visits]
  /\ UNCHANGED <<game, options, s, nodes, th, issued, completed, through, ro>>

Next ==
  \/ \E t \in Threads : StartPass(t)
  \/ \E t \in Threads : SimulateRollout(t)
  \/ \E t \in Threads : SimulateRolloutPanic(t)
  \/ \E t \in Threads : SimulateGet(t)
  \/ \E t \in Threads : SimulateLeaf(t)
  \/ \E t \in Threads : SimulateTrySet(t)
  \/ \E t \in Threads : SimulateTerminal(t)
  \/ \E t \in Threads : BestChildStart(t)
  \/ \E t \in Threads : BestChildPanic(t)
  \/ \E t \in Threads : UctVisits(t)
  \/ \E t \in Threads : UctScore(t)
  \/ \E t \in Threads : UpdateScore(t)
  \/ \E t \in Threads : UpdateVisits(t)
  \/ ChooseMoveReturn
  \/ ChooseMovePanic

Spec == Init /\ [][Next]_vars

\* ------------------------------------------- rollout, one ply at a time
\* MonteCarloTreeSearch::rollout lines 138-142 on an argument s; the tree
\* and the workers stay as choose_move built them.  ro.plies counts the
\* moves applied, ro.legal records whether each of them was a legal move
\* of the state it was applied to.
InitRollout ==
  /\ game \in Games
  /\ options \in [max_rollout_depth : 0..MaxDepth,
                  rollouts_before_expanding : {0}]
  /\ s \in 0..MaxPile
  /\ nodes = (Root :> NewNode)
  /\ th = [t \in Threads |-> Idle @@ [state |-> s]]
  /\ issued = 0
  /\ completed = 0
  /\ outcome = [status |-> "running", move |-> Empty, assert_eq |-> TRUE]
  /\ through = (Root :> 0)
  /\ ro = [pc |-> "loop", s |-> s, state |-> s,
           depth |-> options.max_rollout_depth, sign |-> 1,
           result |-> 0, plies |-> 0, legal |-> TRUE]

\* lines 144-150
RolloutWinner ==
  /\ ro.pc = "loop"
  /\ get_winner(game, ro.state) # None
  /\ ro' = [ro EXCEPT !.pc = "done",
              !.result = WinnerValue(get_winner(game, ro.state)) * ro.sign]
  /\ UNCHANGED <<game, options, s, nodes, th, issued, completed, outcome,
                 through>>

\* RolloutDepth returning the sign instead of a draw at the depth cap
RolloutDepth_Sign ==
  /\ ro.pc = "loop"
  /\ get_winner(game, ro.state) = None
  /\ ro.depth = 0
  /\ ro' = [ro EXCEPT !.pc = "done", !.result = ro.sign]
  /\ UNCHANGED <<game, options, s, nodes, th, issued, completed, outcome,
                 through>>

\* lines 152-154
RolloutDepth ==
  /\ ro.pc = "loop"
  /\ get_winner(game, ro.state) = None
  /\ ro.depth = 0
  /\ ro' = [ro EXCEPT !.pc = "done", !.result = 0]
  /\ UNCHANGED <<game, options, s, nodes, th, issued, completed, outcome,
                 through>>

\* RolloutPly with the sign left as it is (line 160 missing)
RolloutPly_NoFlip ==
  /\ ro.pc = "loop"
  /\ get_winner(game, ro.state) = None
  /\ ro.depth # 0
  /\ \E m \in Range(generate_moves(game, ro.s)) :
       ro' = [ro EXCEPT !.state = apply(m, @),
                        !.depth = @ - 1,
                        !.plies = @ + 1,
                        !.legal = @ /\ m \in Range(generate_moves(game, ro.state))]
  /\ UNCHANGED <<game, options, s, nodes, th, issued, completed, outcome,
                 through>>

\* lines 156-161: the moves are generated from s
RolloutPly ==
  /\ ro.pc = "loop"
  /\ get_winner(game, ro.state) = None
  /\ ro.depth # 0
  /\ \E m \in Range(generate_moves(game, ro.s)) :
       ro' = [ro EXCEPT !.state = apply(m, @),
                        !.sign = -@,
                        !.depth = @ - 1,
                        !.plies = @ + 1,
                        !.legal = @ /\ m \in Range(generate_moves(game, ro.state))]
  /\ UNCHANGED <<game, options, s, nodes, th, issued, completed, outcome,
                 through>>

\* line 158: choose on no moves is None, unwrap panics
RolloutUnwrapPanic ==
  /\ ro.pc = "loop"
  /\ get_winner(game, ro.state) = None
  /\ ro.depth # 0
  /\ generate_moves(game, ro.s) = <<>>
  /\ ro' = [ro EXCEPT !.pc = "panic"]
  /\ UNCHANGED <<game, options, s, nodes, th, issued, completed, outcome,
                 through>>

NextRollout ==
  \/ RolloutWinner
  \/ RolloutDepth
  \/ RolloutPly
  \/ RolloutUnwrapPanic

SpecRollout == InitRollout /\ [][NextRollout]_vars

\* the ply-by-ply run and the set computed by rollout agree
RolloutAgrees ==
  /\ ro.pc = "done" => ro.result \in rollout(game, options, ro.s)
  /\ ro.pc = "panic" =>
       rollout_panics(game, ro.s, ro.s, options.max_rollout_depth)

\* ================================================================ claims
\* ------------------------------------------------------------- rollout
PlayoutWinner == get_winner(game, ro.state)

\* the playout ended in a win for the player to move in s: that player
\* makes the odd plies
ToMoveWon ==
  \/ PlayoutWinner = "PlayerJustMoved" /\ ro.plies % 2 = 1
  \/ PlayoutWinner = "PlayerToMove" /\ ro.plies % 2 = 0

\* the playout ended in a win for the other player, who moved into s
OpponentWon ==
  \/ PlayoutWinner = "PlayerJustMoved" /\ ro.plies % 2 = 0
  \/ PlayoutWinner = "PlayerToMove" /\ ro.plies % 2 = 1

C6_MovesLegalInCurrentState == ro.legal

\* C7: a rollout returns -1, 0 or +1, applies at most max_rollout_depth
\* moves, and returns 0 when it has applied max_rollout_depth moves and the
\* state reached is not terminal.
C7_RolloutBounded ==
  /\ ro.plies <= options.max_rollout_depth
  /\ ro.pc = "done" =>
       /\ ro.result \in {-1, 0, 1}
       /\ (ro.plies = options.max_rollout_depth /\ PlayoutWinner = None)
            => ro.result = 0

C7_Witness ==
  /\ ro.pc = "done"
  /\ ro.plies = options.max_rollout_depth
  /\ ro.plies = MaxDepth
  /\ PlayoutWinner = None
  /\ ro.result = 0

\* ---------------------------------------------------------------- tree

\* C1: once every started pass has completed, the visits of each node is
\* the number of passes whose descent went through it, the visits of the
\* root is the number of passes issued, and the assertion at the end of
\* choose_move holds.
C1_VisitsCountPasses ==
  /\ Quiescent =>
       /\ \A p \in DOMAIN nodes : nodes[p].visits = through[p]
       /\ nodes[Root].visits = issued
  /\ outcome.status = "returned" =>
       outcome.assert_eq /\ nodes[Root].visits = max_rollouts

C1_Witness ==
  /\ outcome.status = "returned"
  /\ \A t \in Threads : th[t].pc = "done"
  /\ \E p \in DOMAIN nodes : Len(p) = 2 /\ nodes[p].visits > 0

\* C2: in every state, between the two halves of update_stats and under
\* any interleaving included, every node has -visits <= score <= visits.
C2_ScoreWithinVisits ==
  \A p \in DOMAIN nodes :
    -nodes[p].visits <= nodes[p].score /\ nodes[p].score <= nodes[p].visits

C2_Witness ==
  \E t \in Threads, u \in Threads :
    /\ t # u
    /\ th[t].pc = "update_score" /\ th[t].result = -1
    /\ th[u].pc = "update_score" /\ th[u].path = th[t].path
    /\ nodes[th[t].path].score = 2 - nodes[th[t].path].visits

\* a state with no legal move that get_winner does not report as terminal
Degenerate(state) ==
  get_winner(game, state) = None /\ generate_moves(game, state) = <<>>

\* C3: choose_move on a state with no legal move that is not terminal does
\* not fail (it returns empty).
C3_DegenerateDoesNotPanic ==
  Degenerate(s) => outcome.status # "panicked"

\* C4: choose_move on a terminal state completes its passes and returns
\* empty: best_child on an expanded node without children returns empty.
C4_TerminalReturnsEmpty ==
  (get_winner(game, s) # None /\ completed = max_rollouts) =>
     /\ outcome.status # "panicked"
     /\ outcome.status = "returned" => outcome.move = Empty

\* the game of C8: one legal move, which wins at once for its mover
Trivial ==
  /\ Len(generate_moves(game, s)) = 1
  /\ get_winner(game, apply(generate_moves(game, s)[1], s)) = "PlayerJustMoved"

\* C8: in the trivial game, after any number of passes the single child of
\* the root has score = visits, and choose_move returns its move.
C8_TrivialGame ==
  Trivial =>
    LET m == generate_moves(game, s)[1]
    IN /\ Quiescent => /\ nodes[<<m>>].score = nodes[<<m>>].visits
                       /\ nodes[<<m>>].visits = completed
       /\ outcome.status = "returned" => outcome.move = Some(m)

C8_Witness ==
  /\ Trivial
  /\ options.rollouts_before_expanding = 1
  /\ outcome.status = "returned"
  /\ nodes[outcome.move].score = max_rollouts

\* the empirical win ratio (score + visits) / (2 * visits) as a fraction,
\* 0 for a node never visited
RatioNum(n) == IF n.visits = 0 THEN 0 ELSE n.score + n.visits
RatioDen(n) == IF n.visits = 0 THEN 1 ELSE 2 * n.visits
RatioGeq(a, b) == RatioNum(a) * RatioDen(b) >= RatioNum(b) * RatioDen(a)

\* C9: the move choose_move returns is the move of a child of the root
\* whose win ratio after the last pass is maximal among the root's
\* children.
C9_ReturnsBestRatio ==
  outcome.status = "returned" =>
    /\ outcome.move # Empty
    /\ outcome.move[1] \in Range(Expansion(Root).children)
    /\ \A m \in Range(Expansion(Root).children) :
         RatioGeq(nodes[outcome.move], nodes[<<m>>])

C9_Witness ==
  /\ outcome.status = "returned"
  /\ \E m \in Range(Expansion(Root).children) :
       /\ nodes[<<m>>].visits > 0
       /\ nodes[outcome.move].visits > 0
       /\ ~RatioGeq(nodes[<<m>>], nodes[outcome.move])

C11_NoEarlyExpansion ==
  /\ \A p \in DOMAIN nodes :
       (p # Root /\ nodes[p].expansion # Empty)
         => nodes[p].visits >= options.rollouts_before_expanding
  /\ \A t \in Threads :
       th[t].leaf =>
         /\ ~th[t].installed /\ ~th[t].lostRace /\ ~th[t].force_rollout
         /\ th[t].pc \in {"leaf_rollout", "update_score", "update_visits",
                          "done", "panic"}

C11_Witness ==
  /\ options.rollouts_before_expanding = 1
  /\ \E t \in Threads : th[t].pc = "done" /\ th[t].leaf
  /\ \E p \in DOMAIN nodes :
       p # Root /\ nodes[p].expansion # Empty /\ nodes[p].visits = 1

\* C12: an expansion that is present stays as it is, with the same verdict,
\* the same moves in the same order and the same child nodes (whose
\* statistics are never lost), whichever pass reads it later; a pass that
\* loses the race to expand a node goes on with the installed expansion.
C12_ExpansionStable ==
  [][\A p \in DOMAIN nodes :
       nodes[p].expansion # Empty =>
         /\ p \in DOMAIN nodes'
         /\ nodes'[p].expansion = nodes[p].expansion
         /\ \A m \in Range(nodes[p].expansion[1].children) :
              /\ Append(p, m) \in DOMAIN nodes'
              /\ nodes'[Append(p, m)].visits >= nodes[Append(p, m)].visits
              /\ nodes[Append(p, m)].expansion # Empty =>
                   nodes'[Append(p, m)].expansion = nodes[Append(p, m)].expansion
    ]_vars

C12_Witness ==
  \E t \in Threads, u \in Threads :
    /\ th[t].pc = "done" /\ th[t].lostRace
    /\ th[u].pc = "done" /\ th[u].installed
    /\ \E p \in DOMAIN nodes :
         /\ p # Root
         /\ nodes[p].expansion # Empty
         /\ nodes[p].visits = 2
         /\ Len(Expansion(p).children) > 0

\* the game state of the node at path p: the moves of p applied to s
RECURSIVE StateAt(_)
StateAt(p) == IF p = Root THEN s ELSE apply(Last(p), StateAt(Parent(p)))

TerminalNode(p) ==
  Expansion(p).winner # None /\ Expansion(p).children = <<>>
InteriorNode(p) ==
  /\ Expansion(p).winner = None
  /\ Expansion(p).children # <<>>
  /\ Expansion(p).children = generate_moves(game, StateAt(p))

\* C13 as stated: every expanded node is terminal (winner, no children)
\* or interior (no winner, one child per legal move, at least one).
C13_TerminalOrInterior ==
  \A p \in DOMAIN nodes :
    nodes[p].expansion # Empty => TerminalNode(p) \/ InteriorNode(p)

\* C13 amended: every expanded node is terminal or interior, never both,
\* except a node whose state has no legal move and no winner, whose
\* expansion has neither a winner nor children.
C13_TerminalOrInteriorOrDegenerate ==
  \A p \in DOMAIN nodes :
    nodes[p].expansion # Empty =>
      /\ Expansion(p).winner = get_winner(game, StateAt(p))
      /\ ~(Expansion(p).winner # None /\ Expansion(p).children # <<>>)
      /\ \/ TerminalNode(p)
         \/ InteriorNode(p)
         \/ /\ Degenerate(StateAt(p))
            /\ Expansion(p).winner = None
            /\ Expansion(p).children = <<>>

C13_Witness ==
  \E p \in DOMAIN nodes, q \in DOMAIN nodes :
    /\ p # Root /\ nodes[p].expansion # Empty /\ TerminalNode(p)
    /\ q # Root /\ nodes[q].expansion # Empty /\ InteriorNode(q)

\* C14: in every best_child call of a search no child's UCT score is NaN,
\* and a child with visits > 0 is scored during descent only against a
\* snapshot of the parent's visits that is at least 1.
C14_ScoreNeverNaN ==
  \A t \in Threads :
    /\ ~th[t].bc.nan
    /\ th[t].pc = "uct_score" => th[t].bc.log_visits >= 1

\* C15: best_child on a node with k >= 1 children returns one of the k
\* children, never None, in the descent (weight 1.0) and in the final
\* choice (weight 0).
C15_BestChildReturnsChild ==
  /\ \A t \in Threads :
       LET path == th[t].path
       IN (/\ nodes[path].expansion # Empty
           /\ Len(Expansion(path).children) >= 1
           /\ th[t].bc.k = Len(Expansion(path).children))
            => th[t].bc.best_child \in 1..Len(Expansion(path).children)
  /\ (outcome.status = "returned" /\ Len(Expansion(Root).children) >= 1)
       => /\ outcome.move # Empty
          /\ outcome.move[1] \in Range(Expansion(Root).children)

\* C16: with the positive weight of the descent, best_child returns a
\* child loaded with visits 0 whenever the scan loaded visits 0 from some
\* child; a visited child is returned only when every child was visited.
C16_UnvisitedFirst ==
  \A t \in Threads :
    /\ th[t].bc.zero => th[t].bc.best_child # 0 /\ th[t].bc.best_visits = 0
    /\ (th[t].bc.best_child # 0 /\ th[t].bc.best_visits > 0) => ~th[t].bc.zero

\* a finished scan of two children that met the visited one first and
\* returned the unvisited one
C16_Witness ==
  \E t \in Threads :
    /\ th[t].pc = "simulate" /\ th[t].path # Root
    /\ Len(Expansion(Parent(th[t].path)).children) = 2
    /\ th[t].bc.k = 2 /\ th[t].bc.zero
    /\ th[t].bc.best_child # th[t].bc.i
    /\ th[t].bc.best_visits = 0
    /\ nodes[ChildPath(Parent(th[t].path), th[t].bc.i)].visits > 0

\* C17: in every pass the value added to the score of a node on the
\* descent path, which is also the value returned to its caller, is the
\* negation of the value added at the child the pass descended into.
C17_Negamax ==
  \A t \in Threads :
    /\ \A j \in 2..Len(th[t].trail) :
         th[t].trail[j] = -th[t].trail[j - 1]
    /\ (th[t].pc \in {"update_visits", "update_score"} /\ th[t].trail # <<>>)
         => th[t].result = -th[t].trail[Len(th[t].trail)]

C17_Witness ==
  \E t \in Threads :
    /\ th[t].pc = "done"
    /\ Len(th[t].trail) = 3
    /\ th[t].trail[1] # 0

\* C18: a pass calls try_set at most once; once it has expanded a node it
\* carries force_rollout, goes at most one node deeper, and at that child
\* it only rolls out and records: the child is neither looked up, expanded
\* nor scanned, and is the deepest node the pass records at.
C18_OneExpansionPerPass ==
  \A t \in Threads :
    LET set == th[t].installed \/ th[t].lostRace
        below == Len(th[t].path) - Len(th[t].setAt)
    IN /\ th[t].pc = "try_set" => ~set
       /\ set =>
            /\ th[t].force_rollout
            /\ below <= 1
            /\ below = 1 =>
                 /\ Parent(th[t].path) = th[t].setAt
                 /\ th[t].pc \in {"simulate", "update_score", "panic"}
            /\ Len(th[t].trail) <= Len(th[t].setAt) + 2
            /\ th[t].pc = "done" =>
                 Len(th[t].trail) =
                   IF Expansion(th[t].setAt).winner = None
                   THEN Len(th[t].setAt) + 2 ELSE Len(th[t].setAt) + 1

C18_Witness ==
  \E t \in Threads :
    /\ th[t].installed /\ th[t].setAt # Root
    /\ th[t].pc = "update_score" /\ th[t].force_rollout
    /\ Parent(th[t].path) = th[t].setAt
    /\ nodes[th[t].path].expansion = Empty
    /\ nodes[th[t].path].visits = 1

\* C19: the working state of a pass is always the root state with the
\* moves of the current descent path applied, so every call of simulate
\* returns with the state it was called with and every pass starts from,
\* and ends with, the state given to choose_move.
C19_StateRestored ==
  \A t \in Threads :
    /\ th[t].pc # "panic" => th[t].state = StateAt(th[t].path)
    /\ th[t].pc \in {"idle", "done"} => th[t].state = s

C19_Witness ==
  \E t \in Threads :
    /\ th[t].pc = "done" /\ th[t].state = s
    /\ Len(th[t].trail) = 3
    /\ issued = 2 /\ completed >= 1

\* the sum of the visits of the children of the node at path p
RECURSIVE SumVisits(_, _)
SumVisits(p, moves) ==
  IF moves = <<>> THEN 0
  ELSE nodes[Append(p, Head(moves))].visits + SumVisits(p, Tail(moves))

ChildrenVisits(p) == SumVisits(p, Expansion(p).children)

NonTerminalExpanded(p) ==
  /\ nodes[p].expansion # Empty
  /\ Expansion(p).winner = None
  /\ Expansion(p).children # <<>>

\* C20 as stated: at a pass boundary the visits of an expanded non-terminal
\* node is the sum of its children's visits plus the rollouts recorded at
\* the node itself before it was expanded, and no child has more visits
\* than its parent.
C20_VisitsSumBeforeExpansion ==
  Quiescent =>
    \A p \in DOMAIN nodes :
      NonTerminalExpanded(p) =>
        /\ nodes[p].visits
             = ChildrenVisits(p) + (nodes[p].direct - nodes[p].late)
        /\ \A m \in Range(Expansion(p).children) :
             nodes[Append(p, m)].visits <= nodes[p].visits

\* C20 amended: at a pass boundary the visits of an expanded non-terminal
\* node is the sum of its children's visits plus all the rollouts recorded
\* at the node itself (none for the root); all of these were recorded
\* before the node was expanded when no two passes ran at the same time;
\* no child has more visits than its parent.
C20_VisitsSum ==
  /\ Quiescent =>
       \A p \in DOMAIN nodes :
         NonTerminalExpanded(p) =>
           /\ nodes[p].visits = ChildrenVisits(p) + nodes[p].direct
           /\ \A m \in Range(Expansion(p).children) :
                nodes[Append(p, m)].visits <= nodes[p].visits
  /\ nodes[Root].direct = 0
  /\ \A t \in Threads : th[t].late => ~th[t].alone

C20_Witness ==
  /\ Quiescent
  /\ \E p \in DOMAIN nodes :
       /\ p # Root /\ NonTerminalExpanded(p)
       /\ nodes[p].direct = 1 /\ nodes[p].late = 0
       /\ ChildrenVisits(p) = 1
       /\ nodes[p].visits = 2
====
